---- MODULE Spec2Model ----
(***************************************************************************)
(* A model of src/vq_vae/network.py: the Residual block, the vector        *)
(* quantizer, the Encoder / Decoder convolution stacks and the Model that  *)
(* composes them.                                                          *)
(*                                                                         *)
(* Tensors are records [shape, data]: data is the flat sequence of the     *)
(* elements in contiguous (row-major) memory order, which is what          *)
(* Tensor.view reads.  Element values are small integers, for which every  *)
(* float32 operation of the code is exact; a fraction (a mean, a weighted  *)
(* sum) is kept as [num, den].                                             *)
(***************************************************************************)
EXTENDS Integers, Sequences, FiniteSets, TLC

VARIABLES
    vq,        \* the VectorQuantize object, or NoObject before construction
    vqCall,    \* the last VectorQuantize.forward call: its inputs and what it computed
    enc,       \* the outcome of the last Encoder(...) construction
    dec,       \* the outcome of the last Decoder(...) construction
    model,     \* the outcome of the last Model(...) construction
    encOut,    \* what the last Encoder.forward call returned
    decOut,    \* what the last Decoder.forward call returned
    res,       \* the Residual object (its two convolution weights)
    resCall    \* the last Residual.forward call

vars == <<vq, vqCall, enc, dec, model, encOut, decOut, res, resCall>>

NoObject == [kind |-> "none"]

(***************************************************************************)
(* Sequence and tensor helpers.                                            *)
(***************************************************************************)
RECURSIVE SumSeq(_)
SumSeq(s) == IF s = <<>> THEN 0 ELSE Head(s) + SumSeq(Tail(s))

RECURSIVE ProdSeq(_)
ProdSeq(s) == IF s = <<>> THEN 1 ELSE Head(s) * ProdSeq(Tail(s))

RECURSIVE Flatten(_)
Flatten(rows) == IF rows = <<>> THEN <<>> ELSE Head(rows) \o Flatten(Tail(rows))

Numel(shape) == ProdSeq(shape)

\* torch.sum(v ** 2) of one row
SqNorm(v) == SumSeq([i \in 1..Len(v) |-> v[i] * v[i]])

\* one entry of torch.matmul(a, b.t()): the inner product of two rows
Dot(a, b) == SumSeq([i \in 1..Len(a) |-> a[i] * b[i]])

\* inputs.view(-1, embeddings_dim): row r (1-based) of the flat data
ViewRows(data, dim) ==
    [r \in 1..(Len(data) \div dim) |-> SubSeq(data, (r - 1) * dim + 1, r * dim)]

(***************************************************************************)
(* A minimal autograd: a tensor in the graph carries, beside its value,    *)
(* the coefficient of its derivative with respect to `inputs` (gin) and    *)
(* with respect to the selected codebook rows (gw).  detach() zeroes both. *)
(***************************************************************************)
Detach(t) == [t EXCEPT !.gin = 0, !.gw = 0]

\* the straight-through term built without .detach(): a plausible slip
NoDetach(t) == t

TSub(a, b) ==
    [shape |-> a.shape,
     data  |-> [i \in 1..Len(a.data) |-> a.data[i] - b.data[i]],
     gin   |-> a.gin - b.gin,
     gw    |-> a.gw - b.gw]

TAdd(a, b) ==
    [shape |-> a.shape,
     data  |-> [i \in 1..Len(a.data) |-> a.data[i] + b.data[i]],
     gin   |-> a.gin + b.gin,
     gw    |-> a.gw + b.gw]

\* torch.mean(t ** 2) as a fraction
MeanSq(t) ==
    [num |-> SumSeq([i \in 1..Len(t.data) |-> t.data[i] * t.data[i]]),
     den |-> Len(t.data)]

(***************************************************************************)
(* VectorQuantize                                                          *)
(***************************************************************************)
\* the largest num_embeddings of the generically enumerated codebooks
MaxEmb == 2

\* the codebook of the specification's scenario
ScenarioCodebook == << <<0, 0>>, <<10, 10>>, <<5, 5>>, <<-5, -5>> >>

\* the rows a codebook is built from
CodeVectors == { <<0, 0>>, <<10, 10>>, <<5, 5>>, <<-5, -5>> }

Codebooks ==
    UNION { [1..n -> CodeVectors] : n \in 1..MaxEmb } \cup { ScenarioCodebook }

\* commitment_cost as a fraction <<num, den>>: -2, -1, 0, 0.25, 1
Costs == { <<-2, 1>>, <<-1, 1>>, <<0, 1>>, <<1, 4>>, <<1, 1>> }

\* element values of an input latent grid
InVals == { 0, 1, 5, 10 }

\* (batch, channel, height, width) of the latent grids passed to forward
Shapes == { <<1, 2, 1, 1>>, <<1, 2, 1, 2>>, <<1, 2, 2, 1>>, <<2, 2, 1, 1>> }

InputTensors ==
    UNION { { [shape |-> s, data |-> d] : d \in [1..Numel(s) -> InVals] } : s \in Shapes }

\* VectorQuantize.__init__; the weight stands for the uniform_ draw and for
\* whatever the optimizer made of it since
VQInit(weight, commitment_cost) ==
    [kind            |-> "VectorQuantize",
     num_embeddings  |-> Len(weight),
     embeddings_dim  |-> Len(weight[1]),
     commitment_cost |-> commitment_cost,
     weight          |-> weight]

\* the expanded form with the cross term not doubled
DistanceNoDouble(row, weight) ==
    [j \in 1..Len(weight) |-> SqNorm(row) + SqNorm(weight[j]) - Dot(row, weight[j])]

\* one row of `distance`: |a|^2 + |b|^2 - 2ab against every codebook row
Distance(row, weight) ==
    [j \in 1..Len(weight) |-> SqNorm(row) + SqNorm(weight[j]) - 2 * Dot(row, weight[j])]

\* torch.argmin over one row: the first minimal value's index, 0-based
ArgMin(d) ==
    (CHOOSE i \in 1..Len(d) :
        /\ \A j \in 1..Len(d) : d[i] <= d[j]
        /\ \A j \in 1..(i - 1) : d[j] > d[i]) - 1

\* zeros(...).scatter_(1, selected_e_index, 1): one row
OneHot(idx, n) == [j \in 1..n |-> IF j - 1 = idx THEN 1 ELSE 0]

\* one row of torch.matmul(one_hot_e_index, weight)
SelectRow(onehot, weight) ==
    [c \in 1..Len(weight[1]) |->
        SumSeq([j \in 1..Len(weight) |-> onehot[j] * weight[j][c]])]

\* commitment_cost * e_loss - q_loss: a sign slip
CombineLossNeg(cost, e_loss, q_loss) ==
    [num |-> cost[1] * e_loss.num * q_loss.den - cost[2] * q_loss.num * e_loss.den,
     den |-> cost[2] * e_loss.den * q_loss.den]

\* commitment_cost * e_loss + q_loss, as a fraction
CombineLoss(cost, e_loss, q_loss) ==
    [num |-> cost[1] * e_loss.num * q_loss.den + cost[2] * q_loss.num * e_loss.den,
     den |-> cost[2] * e_loss.den * q_loss.den]

\* the detach of the straight-through term, line 57
StopGradient(t) == Detach(t)

\* VectorQuantize.forward
VQForward(self, inputs) ==
    LET x        == [shape |-> inputs.shape, data |-> inputs.data, gin |-> 1, gw |-> 0]
        rows     == ViewRows(inputs.data, self.embeddings_dim)
        distance == [r \in 1..Len(rows) |-> Distance(rows[r], self.weight)]
        selected == [r \in 1..Len(rows) |-> ArgMin(distance[r])]
        one_hot  == [r \in 1..Len(rows) |-> OneHot(selected[r], self.num_embeddings)]
        e        == [shape |-> inputs.shape,
                     data  |-> Flatten([r \in 1..Len(rows) |->
                                           SelectRow(one_hot[r], self.weight)]),
                     gin   |-> 0,
                     gw    |-> 1]
        e_diff   == TSub(Detach(e), x)
        q_diff   == TSub(Detach(x), e)
        e_loss   == MeanSq(e_diff)
        q_loss   == MeanSq(q_diff)
    IN  [kind     |-> "forward",
         inputs   |-> inputs,
         rows     |-> rows,
         selected |-> selected,
         e        |-> e,
         e_loss   |-> e_loss,
         q_loss   |-> q_loss,
         loss     |-> CombineLoss(self.commitment_cost, e_loss, q_loss),
         latent   |-> TAdd(x, StopGradient(TSub(e, x)))]

VQConstruct ==
    /\ vq = NoObject
    /\ \E w \in Codebooks, c \in Costs : vq' = VQInit(w, c)
    /\ UNCHANGED <<vqCall, enc, dec, model, encOut, decOut, res, resCall>>

\* a training step's forward pass: loss, x = self._vq(x)
VQCallForward ==
    /\ vq # NoObject
    /\ vqCall = NoObject
    /\ \E t \in InputTensors : vqCall' = VQForward(vq, t)
    /\ UNCHANGED <<vq, enc, dec, model, encOut, decOut, res, resCall>>

\* the caller drops the results of the pass; the next pass may begin
VQReturn ==
    /\ vqCall # NoObject
    /\ vqCall' = NoObject
    /\ UNCHANGED <<vq, enc, dec, model, encOut, decOut, res, resCall>>

InitVQ ==
    /\ vq = NoObject
    /\ vqCall = NoObject
    /\ enc = NoObject
    /\ dec = NoObject
    /\ model = NoObject
    /\ encOut = NoObject
    /\ decOut = NoObject
    /\ res = NoObject
    /\ resCall = NoObject

NextVQ == VQConstruct \/ VQCallForward \/ VQReturn

SpecVQ == InitVQ /\ [][NextVQ]_vars

(***************************************************************************)
(* Encoder, Decoder, Model: the layer stacks and the shapes they produce.  *)
(* A layer is a record; a construction yields the object or the exception  *)
(* it raised, as [kind |-> "error", error, line].                          *)
(***************************************************************************)
\* the largest num_layers (number of residual blocks) constructed
MaxLayers == 2

\* the largest image height and width passed to forward
MaxRes == 4

Conv2d(in_channels, out_channels, kernel_size, stride, padding) ==
    [op |-> "Conv2d", in |-> in_channels, out |-> out_channels,
     k |-> kernel_size, s |-> stride, p |-> padding]

ConvTranspose2d(in_channels, out_channels, kernel_size, stride, padding) ==
    [op |-> "ConvTranspose2d", in |-> in_channels, out |-> out_channels,
     k |-> kernel_size, s |-> stride, p |-> padding]

ReLU == [op |-> "ReLU"]

\* Residual.__init__: ReLU, 3x3 convolution, ReLU, 1x1 convolution
ResidualLayer(input_channels, residual_units) ==
    [op |-> "Residual", in |-> input_channels, out |-> input_channels,
     block |-> << ReLU,
                  Conv2d(input_channels, residual_units, 3, 1, 1),
                  ReLU,
                  Conv2d(residual_units, input_channels, 1, 1, 0) >>]

\* what line 99 appends: a generator expression, not a Module
GeneratorObject == [op |-> "generator"]

Raised(error, line) == [kind |-> "error", error |-> error, line |-> line]

IsModule(layer) == layer.op # "generator"

\* Encoder.__init__
EncoderInit(in_channels, hidden_units, num_layers, residual_hidden_units, number_pre_conv) ==
    LET pre == IF number_pre_conv = 4
               THEN << Conv2d(in_channels, hidden_units \div 2, 4, 2, 1),
                       ReLU,
                       Conv2d(hidden_units \div 2, hidden_units, 4, 2, 1),
                       ReLU,
                       Conv2d(hidden_units, hidden_units, 3, 1, 1) >>
               ELSE << Conv2d(hidden_units \div 2, hidden_units, 4, 2, 1),
                       ReLU,
                       Conv2d(hidden_units, hidden_units, 3, 1, 1) >>
        layer_modules == pre \o [i \in 1..num_layers |-> GeneratorObject] \o << ReLU >>
    IN  IF number_pre_conv \notin {2, 4}
        THEN Raised("AssertionError", 65)
        ELSE IF \E i \in 1..Len(layer_modules) : ~IsModule(layer_modules[i])
        THEN Raised("TypeError", 102)
        ELSE [kind |-> "Encoder", layers |-> layer_modules]

\* Decoder.__init__
DecoderInit(in_channels, hidden_units, num_layers, residual_hidden_units, number_post_trans_conv) ==
    LET de_conv     == Conv2d(in_channels, hidden_units, 3, 1, 1)
        layer_lists == [i \in 1..num_layers |->
                           ResidualLayer(hidden_units, residual_hidden_units)]
        post_layers_modules ==
            IF number_post_trans_conv = 2
            THEN << ConvTranspose2d(hidden_units, hidden_units \div 2, 4, 2, 1),
                    ReLU,
                    ConvTranspose2d(hidden_units \div 2, 3, 4, 2, 1) >>
            ELSE << ConvTranspose2d(hidden_units, 3, 4, 2, 1) >>
    IN  IF number_post_trans_conv \notin {1, 2}
        THEN Raised("UnboundLocalError", 139)
        ELSE [kind            |-> "Decoder",
              de_conv         |-> de_conv,
              residual_layers |-> layer_lists,
              post_block      |-> post_layers_modules]

\* a call Encoder(*args): __init__ has five parameters without defaults
EncoderNew(args, line) ==
    IF Len(args) # 5
    THEN Raised("TypeError", line)
    ELSE EncoderInit(args[1], args[2], args[3], args[4], args[5])

\* a call Decoder(*args): __init__ has five parameters without defaults
DecoderNew(args, line) ==
    IF Len(args) # 5
    THEN Raised("TypeError", line)
    ELSE DecoderInit(args[1], args[2], args[3], args[4], args[5])

\* Model.__init__: the first statement that raises ends the construction
ModelInit(hidden_units, residual_layers, residual_hidden_units, num_embeddings, embeddings_dim, commitment_cost) ==
    LET encoder  == EncoderNew(<<3, hidden_units, residual_layers, residual_hidden_units>>,
                               152)
        before_z == Conv2d(hidden_units, embeddings_dim, 1, 1, 0)
        decoder  == DecoderNew(<<embeddings_dim, hidden_units, residual_layers,
                                 residual_hidden_units>>, 155)
    IN  IF encoder.kind = "error" THEN encoder
        ELSE IF decoder.kind = "error" THEN decoder
        ELSE [kind |-> "Model", encoder |-> encoder, before_z |-> before_z,
              num_embeddings |-> num_embeddings, embeddings_dim |-> embeddings_dim,
              commitment_cost |-> commitment_cost, decoder |-> decoder]

\* an activation tensor, by its shape: (channels, height, width)
Tensor(channels, height, width) ==
    [kind |-> "tensor", channels |-> channels, h |-> height, w |-> width]

\* output size of a convolution along one axis
ConvOut(n, layer) == ((n + 2 * layer.p - layer.k) \div layer.s) + 1

\* output size of a transposed convolution along one axis
ConvTransposeOut(n, layer) == (n - 1) * layer.s - 2 * layer.p + layer.k

\* one layer applied to a tensor (or to what an earlier layer raised)
\* (line 0: the exception is raised inside the tensor library)
RECURSIVE ApplyLayer(_, _)
RECURSIVE RunLayers(_, _)
ApplyLayer(layer, x) ==
    IF x.kind = "error" THEN x
    ELSE IF x.kind # "tensor" THEN Raised("TypeError", 0)
    ELSE IF layer.op = "ReLU" THEN x
    ELSE IF layer.op = "Residual" THEN
        LET y == RunLayers(layer.block, x)
        IN  IF y.kind = "error" THEN y ELSE x
    ELSE IF x.channels # layer.in THEN Raised("RuntimeError", 0)
    ELSE IF layer.op = "Conv2d" THEN
        IF x.h + 2 * layer.p < layer.k \/ x.w + 2 * layer.p < layer.k
        THEN Raised("RuntimeError", 0)
        ELSE Tensor(layer.out, ConvOut(x.h, layer), ConvOut(x.w, layer))
    ELSE Tensor(layer.out, ConvTransposeOut(x.h, layer), ConvTransposeOut(x.w, layer))

\* nn.Sequential.forward
RunLayers(layers, x) ==
    IF layers = <<>> THEN x ELSE RunLayers(Tail(layers), ApplyLayer(Head(layers), x))

\* Encoder.forward: returns the layer stack itself, not its result
EncoderForward(self, inputs) == [kind |-> "module", layers |-> self.layers]

\* Decoder.forward
DecoderForward(self, inputs) ==
    LET x == ApplyLayer(self.de_conv, inputs)
        y == RunLayers(self.residual_layers, x)
    IN  RunLayers(self.post_block, y)

HiddenUnits == { 4, 6 }
ResidualHiddenUnits == { 2 }
StageCounts == 0..4
EmbeddingDims == { 2 }

Images == { Tensor(3, h, w) : h, w \in 1..MaxRes }

Latents == { Tensor(c, n, n) : c \in EmbeddingDims \cup { 3 }, n \in 1..2 }

EncoderConstruct ==
    /\ enc = NoObject
    /\ \E hidden_units \in HiddenUnits, num_layers \in 0..MaxLayers,
          residual_hidden_units \in ResidualHiddenUnits,
          number_pre_conv \in StageCounts :
          LET args == <<3, hidden_units, num_layers, residual_hidden_units, number_pre_conv>>
          IN  enc' = [args |-> args, made |-> EncoderNew(args, 0)]
    /\ UNCHANGED <<vq, vqCall, dec, model, encOut, decOut, res, resCall>>

DecoderConstruct ==
    /\ dec = NoObject
    /\ \E in_channels \in EmbeddingDims, hidden_units \in HiddenUnits,
          num_layers \in 0..MaxLayers, residual_hidden_units \in ResidualHiddenUnits,
          number_post_trans_conv \in StageCounts :
          LET args == <<in_channels, hidden_units, num_layers, residual_hidden_units,
                        number_post_trans_conv>>
          IN  dec' = [args |-> args, made |-> DecoderNew(args, 0)]
    /\ UNCHANGED <<vq, vqCall, enc, model, encOut, decOut, res, resCall>>

ModelConstruct ==
    /\ model = NoObject
    /\ \E hidden_units \in HiddenUnits, residual_layers \in 0..MaxLayers,
          residual_hidden_units \in ResidualHiddenUnits, num_embeddings \in 1..MaxEmb,
          embeddings_dim \in EmbeddingDims, commitment_cost \in Costs :
          model' = [args |-> <<hidden_units, residual_layers, residual_hidden_units,
                               num_embeddings, embeddings_dim, commitment_cost>>,
                    made |-> ModelInit(hidden_units, residual_layers, residual_hidden_units,
                                       num_embeddings, embeddings_dim, commitment_cost)]
    /\ UNCHANGED <<vq, vqCall, enc, dec, encOut, decOut, res, resCall>>

\* x = encoder(inputs)
EncoderCall ==
    /\ enc # NoObject
    /\ enc.made.kind = "Encoder"
    /\ encOut = NoObject
    /\ \E inputs \in Images :
          encOut' = [inputs |-> inputs, output |-> EncoderForward(enc.made, inputs)]
    /\ UNCHANGED <<vq, vqCall, enc, dec, model, decOut, res, resCall>>

\* y = decoder(x), x a latent grid or what the encoder call returned
DecoderCall ==
    /\ dec # NoObject
    /\ dec.made.kind = "Decoder"
    /\ decOut = NoObject
    /\ \E inputs \in Latents \cup (IF encOut = NoObject THEN {} ELSE { encOut.output }) :
          decOut' = [inputs |-> inputs, output |-> DecoderForward(dec.made, inputs)]
    /\ UNCHANGED <<vq, vqCall, enc, dec, model, encOut, res, resCall>>

InitStack == InitVQ

NextStack ==
    EncoderConstruct \/ DecoderConstruct \/ ModelConstruct \/ EncoderCall \/ DecoderCall

SpecStack == InitStack /\ [][NextStack]_vars

(***************************************************************************)
(* Residual.forward on values.  A tensor is [shape, data] with shape       *)
(* (batch, channels, height, width); a convolution weight is indexed       *)
(* weight[out][in][row][col].                                              *)
(***************************************************************************)
\* element (b, c, i, j), 0-based, of a zero-padded tensor
Padded(t, b, c, i, j) ==
    IF i < 0 \/ i >= t.shape[3] \/ j < 0 \/ j >= t.shape[4]
    THEN 0
    ELSE t.data[((b * t.shape[2] + c) * t.shape[3] + i) * t.shape[4] + j + 1]

\* F.conv2d with stride 1 and no bias
ConvValues(t, weight, padding) ==
    LET B  == t.shape[1]
        C  == t.shape[2]
        O  == Len(weight)
        K  == Len(weight[1][1])
        H  == t.shape[3] + 2 * padding - K + 1
        W  == t.shape[4] + 2 * padding - K + 1
        el(n) ==
            LET j == n % W
                i == (n \div W) % H
                o == (n \div (W * H)) % O
                b == n \div (W * H * O)
            IN  SumSeq([m \in 1..(C * K * K) |->
                    LET v == (m - 1) % K
                        u == ((m - 1) \div K) % K
                        c == (m - 1) \div (K * K)
                    IN  weight[o + 1][c + 1][u + 1][v + 1]
                            * Padded(t, b, c, i + u - padding, j + v - padding)])
    IN  [shape |-> <<B, O, H, W>>, data |-> [n \in 1..(B * O * H * W) |-> el(n - 1)]]

\* F.relu on values
Relu(t) == [t EXCEPT !.data = [i \in 1..Len(t.data) |-> IF t.data[i] > 0 THEN t.data[i] ELSE 0]]

Plus(a, b) == [a EXCEPT !.data = [i \in 1..Len(a.data) |-> a.data[i] + b.data[i]]]

\* Residual.forward.  nn.ReLU(True) at the head of the block overwrites the
\* storage of `inputs` before the sum reads it; `storage` is that tensor as
\* the caller finds it afterwards.
ResidualForward(self, inputs) ==
    LET storage == Relu(inputs)
        t1      == Relu(ConvValues(storage, self.conv3x3, 1))
        t2      == ConvValues(t1, self.conv1x1, 0)
    IN  [kind |-> "forward", inputs |-> inputs, storage |-> storage,
         output |-> Plus(storage, t2)]

\* 3x3 kernels of the first convolution (one input, one output channel)
Kernels3 ==
    { << <<0, 0, 0>>, <<0, 0, 0>>, <<0, 0, 0>> >>,
      << <<0, 0, 0>>, <<0, 1, 0>>, <<0, 0, 0>> >>,
      << <<0, 0, 0>>, <<0, -1, 0>>, <<0, 0, 0>> >>,
      << <<0, 0, 0>>, <<1, 0, 0>>, <<0, 0, 0>> >>,
      << <<1, 1, 1>>, <<1, 1, 1>>, <<1, 1, 1>> >> }

\* weights of the 1x1 convolution
Kernels1 == { -1, 1, 2 }

XVals == { -2, -1, 0, 1, 2 }

XShapes == { <<1, 1, 1, 1>>, <<1, 1, 1, 2>>, <<1, 1, 2, 1>> }

XTensors ==
    UNION { { [shape |-> sh, data |-> d] : d \in [1..Numel(sh) -> XVals] } : sh \in XShapes }

\* Residual.__init__ with input_channels = residual_units = 1
ResidualConstruct ==
    /\ res = NoObject
    /\ \E k3 \in Kernels3, k1 \in Kernels1 :
          res' = [kind |-> "Residual", conv3x3 |-> << << k3 >> >>,
                  conv1x1 |-> << << << <<k1>> >> >> >>]
    /\ UNCHANGED <<vq, vqCall, enc, dec, model, encOut, decOut, resCall>>

ResidualCall ==
    /\ res # NoObject
    /\ resCall = NoObject
    /\ \E x \in XTensors : resCall' = ResidualForward(res, x)
    /\ UNCHANGED <<vq, vqCall, enc, dec, model, encOut, decOut, res>>

ResidualReturn ==
    /\ resCall # NoObject
    /\ resCall' = NoObject
    /\ UNCHANGED <<vq, vqCall, enc, dec, model, encOut, decOut, res>>

InitResidual == InitVQ

NextResidual == ResidualConstruct \/ ResidualCall \/ ResidualReturn

SpecResidual == InitResidual /\ [][NextResidual]_vars

(***************************************************************************)
(* Properties of the stacks and of Residual.forward                        *)
(***************************************************************************)
\* exceptions that a check of the configuration raises
ConfigErrors == { "AssertionError", "ValueError" }

\* C3: an unsupported stage count fails the construction with an explicit
\* configuration error; no object is produced.
C3_ExplicitConfigError ==
    /\ (enc # NoObject /\ enc.args[5] \notin {2, 4})
           => (enc.made.kind = "error" /\ enc.made.error \in ConfigErrors)
    /\ (dec # NoObject /\ dec.args[5] \notin {1, 2})
           => (dec.made.kind = "error" /\ dec.made.error \in ConfigErrors)

\* C4: constructing a Model succeeds for any hyperparameters.
C4_ModelConstructs == model # NoObject => model.made.kind = "Model"

RECURSIVE Pow2(_)
Pow2(k) == IF k = 0 THEN 1 ELSE 2 * Pow2(k - 1)

\* C5: an Encoder with k stride-2 stages followed by a Decoder with k
\* transposed stages maps an image of resolution (h, w) to an output of 3
\* channels and resolution (h, w), the encoder's output resolution r
\* satisfying h = r * 2^k.
C5_RoundTripShape ==
    (/\ encOut # NoObject
     /\ decOut # NoObject
     /\ decOut.inputs = encOut.output
     /\ dec.args[5] \in {1, 2}
     /\ enc.args[5] = 2 * dec.args[5])
        => /\ encOut.output.kind = "tensor"
           /\ encOut.inputs.h = encOut.output.h * Pow2(dec.args[5])
           /\ decOut.output = Tensor(3, encOut.inputs.h, encOut.inputs.w)

HasChannels(layer) == layer.op # "ReLU"

\* every layer after the first takes the channels the one before it produces
Chained(layers, in_channels) ==
    LET ls == SelectSeq(layers, HasChannels)
    IN  /\ ls # <<>> => ls[1].in = in_channels
        /\ \A i \in 2..Len(ls) : ls[i].in = ls[i - 1].out

\* C6: in every constructed Encoder and Decoder the first layer takes the
\* configured in_channels and every later layer takes what the previous one
\* produces; a forward pass on in_channels channels meets no channel mismatch.
C6_ChannelsChain ==
    /\ (enc # NoObject /\ enc.made.kind = "Encoder")
           => Chained(enc.made.layers, enc.args[1])
    /\ (dec # NoObject /\ dec.made.kind = "Decoder")
           => Chained(<<dec.made.de_conv>> \o dec.made.residual_layers
                          \o dec.made.post_block, dec.args[1])
    /\ (decOut # NoObject /\ decOut.inputs.kind = "tensor"
            /\ decOut.inputs.channels = dec.args[1])
           => decOut.output.kind = "tensor"

IsResidual(layer) == layer.op = "Residual"

\* C9: for every num_layers = n and supported stage count the Encoder is
\* constructed with its convolutions, exactly n Residual blocks and a final
\* ReLU; the Decoder with exactly n Residual blocks.
C9_ResidualBlocks ==
    /\ (enc # NoObject /\ enc.args[5] \in {2, 4})
           => /\ enc.made.kind = "Encoder"
              /\ Len(SelectSeq(enc.made.layers, IsResidual)) = enc.args[3]
              /\ enc.made.layers[Len(enc.made.layers)] = ReLU
              /\ \A i \in 1..enc.args[3] :
                     IsResidual(enc.made.layers[Len(enc.made.layers) - i])
    /\ (dec # NoObject /\ dec.args[5] \in {1, 2})
           => /\ dec.made.kind = "Decoder"
              /\ Len(dec.made.residual_layers) = dec.args[3]
              /\ \A i \in 1..dec.args[3] : IsResidual(dec.made.residual_layers[i])

\* C10: Residual.forward returns x + conv1x1(relu(conv3x3(relu(x)))) with x
\* the value the caller passed.
C10_SkipAddsInput ==
    resCall # NoObject =>
        resCall.output =
            Plus(resCall.inputs,
                 ConvValues(Relu(ConvValues(Relu(resCall.inputs), res.conv3x3, 1)),
                            res.conv1x1, 0))

(***************************************************************************)
(* Properties of VectorQuantize.forward                                    *)
(***************************************************************************)
\* the squared Euclidean distance, computed directly
DirectSqDist(a, b) == SumSeq([i \in 1..Len(a) |-> (a[i] - b[i]) * (a[i] - b[i])])

VQCalled == vqCall # NoObject

\* the element (b, c, h, w) (0-based) of a contiguous 4-d tensor
At(t, b, c, h, w) ==
    t.data[((b * t.shape[2] + c) * t.shape[3] + h) * t.shape[4] + w + 1]

\* the channel vector of a grid at batch element b, position (h, w)
ChannelVector(t, b, h, w) == [c \in 1..t.shape[2] |-> At(t, b, c - 1, h, w)]

C2_PerPositionNearest ==
    VQCalled =>
        \A b \in 0..(vqCall.inputs.shape[1] - 1),
           h \in 0..(vqCall.inputs.shape[3] - 1),
           w \in 0..(vqCall.inputs.shape[4] - 1) :
            LET zin  == ChannelVector(vqCall.inputs, b, h, w)
                zout == ChannelVector(vqCall.latent, b, h, w)
            IN  /\ \E j \in 1..vq.num_embeddings : zout = vq.weight[j]
                /\ \A j \in 1..vq.num_embeddings :
                       DirectSqDist(zin, zout) <= DirectSqDist(zin, vq.weight[j])

\* C7 as stated: the combined loss is non-negative for every input, codebook
\* and commitment_cost.
C7_LossNonNegative == VQCalled => vqCall.loss.num >= 0

\* the mean squared difference between the selected rows and the input
MeanSqDiff(call) ==
    [num |-> SumSeq([i \in 1..Len(call.inputs.data) |->
                (call.e.data[i] - call.inputs.data[i]) * (call.e.data[i] - call.inputs.data[i])]),
     den |-> Len(call.inputs.data)]

\* C7 amended: e_loss and q_loss both equal the mean squared difference; the
\* combined loss is non-negative whenever commitment_cost >= -1, and negative
\* when commitment_cost < -1 and the input differs from its selected rows;
\* commitment_cost 0.25, selected [0,0] and input [1,1] give 1.25.
C7_LossSign ==
    VQCalled =>
        LET cost == vq.commitment_cost
            loss == vqCall.loss
        IN  /\ vqCall.e_loss = MeanSqDiff(vqCall)
            /\ vqCall.q_loss = MeanSqDiff(vqCall)
            /\ loss.den > 0
            /\ (cost[1] >= -cost[2]) => loss.num >= 0
            /\ (cost[1] < -cost[2] /\ vqCall.e.data # vqCall.inputs.data) => loss.num < 0
            /\ (cost = <<1, 4>> /\ vqCall.e.data = <<0, 0>> /\ vqCall.inputs.data = <<1, 1>>)
                   => 4 * loss.num = 5 * loss.den

\* C7 witness: the scenario, with loss 1.25
C7_Witness ==
    /\ VQCalled
    /\ vq.commitment_cost = <<1, 4>>
    /\ vqCall.e.data = <<0, 0>>
    /\ vqCall.inputs.data = <<1, 1>>
    /\ 4 * vqCall.loss.num = 5 * vqCall.loss.den

====
